---- MODULE Spec2Model ----
(***************************************************************************)
(* Model of emlearn/eml_trees.h: inference over decision-tree ensembles.   *)
(* A call of one API function runs as a sequence of steps (function entry, *)
(* one traversal-loop iteration, one leaf decode, the final mean, the      *)
(* argmax scan); `pc` is the position of the call in the code.             *)
(*                                                                         *)
(* float values are modelled as exact rationals [num, den] in lowest terms *)
(* with den > 0, plus NaN (0/0) and the infinities (+-1/0); rounding of    *)
(* binary32 is not modelled.  The leaf buffer is read as little-endian.    *)
(***************************************************************************)
EXTENDS Integers, Sequences, FiniteSets, TLC

\* ---------------------------------------------------------------- bounds
MaxNodes == 2
MaxTrees == 3
\* saturation value of the per-traversal visit counter
MaxSteps == MaxNodes + 2

\* ------------------------------------------------------ program constants
EMTREES_MAX_CLASSES == 30
EmlTreesOK == 0
EmlTreesUnknownError == 1
EmlTreesInvalidClassPredicted == 2
EmlTreesErrorLength == 3

\* EmlError values of eml_common.h that eml_trees.h returns
EmlOk == "EmlOk"
EmlSizeMismatch == "EmlSizeMismatch"
EmlUnsupported == "EmlUnsupported"
EmlUninitialized == "EmlUninitialized"

\* ------------------------------------------------------------ arithmetic
Abs(x) == IF x < 0 THEN -x ELSE x
Sign(x) == IF x < 0 THEN -1 ELSE IF x > 0 THEN 1 ELSE 0
Min(a, b) == IF a < b THEN a ELSE b
Max(a, b) == IF a > b THEN a ELSE b

RECURSIVE GCD(_, _)
GCD(a, b) == IF b = 0 THEN a ELSE GCD(b, a % b)

RECURSIVE Pow2(_)
Pow2(k) == IF k = 0 THEN 1 ELSE 2 * Pow2(k - 1)

\* int16_t conversion (two's complement wrap)
ToInt16(x) == ((x + 32768) % 65536) - 32768

\* float values
NaN == [num |-> 0, den |-> 0]
Inf(s) == [num |-> s, den |-> 0]
IsNaN(x) == x.num = 0 /\ x.den = 0
IsInf(x) == x.num # 0 /\ x.den = 0
Norm(n, d) == LET g == GCD(Abs(n), d) IN [num |-> n \div g, den |-> d \div g]
F(n) == [num |-> n, den |-> 1]

\* float + float
FAdd(x, y) ==
    IF IsNaN(x) \/ IsNaN(y) THEN NaN
    ELSE IF IsInf(x) /\ IsInf(y) THEN (IF x.num = y.num THEN x ELSE NaN)
    ELSE IF IsInf(x) THEN x
    ELSE IF IsInf(y) THEN y
    ELSE Norm(x.num * y.den + y.num * x.den, x.den * y.den)

\* float / (float) n, for an integer n >= 0
FDivInt(x, n) ==
    IF IsNaN(x) THEN NaN
    ELSE IF n = 0 THEN (IF x.num = 0 THEN NaN ELSE Inf(Sign(x.num)))
    ELSE IF IsInf(x) THEN x
    ELSE Norm(x.num, x.den * n)

\* float > float (false when either side is NaN)
FGt(x, y) ==
    IF IsNaN(x) \/ IsNaN(y) THEN FALSE
    ELSE IF IsInf(x) THEN x.num > 0 /\ ~(IsInf(y) /\ y.num > 0)
    ELSE IF IsInf(y) THEN y.num < 0
    ELSE x.num * y.den > y.num * x.den

\* the binary32 value held in four bytes, least significant byte first
DecodeFloat(b0, b1, b2, b3) ==
    LET sign == IF b3 >= 128 THEN -1 ELSE 1
        exp  == (b3 % 128) * 2 + (b2 \div 128)
        mant == (b2 % 128) * 65536 + b1 * 256 + b0
        sig  == Norm(Pow2(23) + mant, Pow2(23))
    IN  IF exp = 255 THEN (IF mant = 0 THEN Inf(sign) ELSE NaN)
        ELSE IF exp = 0 THEN (IF mant = 0 THEN F(0) ELSE Norm(sign * mant, Pow2(149)))
        ELSE IF exp >= 127 THEN Norm(sign * sig.num * Pow2(exp - 127), sig.den)
        ELSE Norm(sign * sig.num, sig.den * Pow2(127 - exp))


\* ------------------------------------------------------------ data model
\* a C array: a function on 0 .. n-1
Arr(seq) == [k \in 0 .. Len(seq) - 1 |-> seq[k + 1]]

\* EmlTreesNode
Node(f, v, l, r) == [feature |-> f, value |-> v, left |-> l, right |-> r]

\* EmlTrees
Trees(nodes, roots, n_leaves, leaves, leaf_bits, n_features, n_classes) ==
    [n_nodes |-> Len(nodes), nodes |-> Arr(nodes),
     n_trees |-> Len(roots), tree_roots |-> Arr(roots),
     n_leaves |-> n_leaves, leaves |-> Arr(leaves), leaf_bits |-> leaf_bits,
     n_features |-> n_features, n_classes |-> n_classes]

\* ------------------------------------------------------- inputs (bounded)
FeatVals == {5, 10, 15}
Thresholds == {10}
FeatureCounts == {1, 2}
LeafRefs == {-1, -2}
FeatureVectors(nf) == [0 .. nf - 1 -> FeatVals]

\* the array behind the features pointer: none behind a null pointer
PassedFeatures(nf, fnull) == IF fnull THEN {<<>>} ELSE FeatureVectors(nf)

SeqsUpTo(S, n) == UNION {[1 .. k -> S] : k \in 0 .. n}

\* node k of an array of n nodes: any feature, a threshold, and children that
\* are leaf references or relative jumps that stay inside the array (0 is a
\* jump to the node itself)
NodesAt(k, n, nf) ==
    {Node(f, v, l, r) : f \in 0 .. nf - 1, v \in Thresholds,
                        l \in LeafRefs \cup (0 .. n - 1 - k),
                        r \in LeafRefs \cup (0 .. n - 1 - k)}

\* every node that may stand somewhere in an array of n nodes
AnyNode(n, nf) == UNION {NodesAt(k, n, nf) : k \in 0 .. n - 1}

\* ns is a node array of n nodes whose jumps stay inside the array
IsNodeArray(ns, n, nf) == \A k \in 1 .. n : ns[k] \in NodesAt(k - 1, n, nf)

\* a single tree rooted at node 0, majority-vote leaves {0, 1}
TreeModel(ns, nf) == Trees(ns, <<0>>, 2, <<0, 1>>, 0, nf, 2)

\* ------------------------------------------------------------------ state
VARIABLES
    forest,       \* the EmlTrees model passed to the call (never written by the engine)
    features,     \* the caller's feature array
    call,         \* the arguments of the call in progress
    pc,           \* position of the call in the code ("crashed": undefined
                  \* behaviour ended the process)
    out,          \* the score / output buffer the call writes (out, votes)
    i,            \* tree loop index
    node_idx,     \* eml_trees_predict_tree: node_idx
    visited,      \* nodes visited by the current traversal (saturates at MaxSteps)
    traversed,    \* indices of the trees whose traversal was started, in order
    leaf_number,  \* value returned by the last eml_trees_predict_tree
    sum,          \* eml_trees_regress: sum
    ret,          \* value returned by the call
    writes,       \* indices at which vote increments were written
    data_read     \* TRUE once the call read a feature or a leaf byte

vars == <<forest, features, call, pc, out, i, node_idx, visited, traversed,
          leaf_number, sum, ret, writes, data_read>>

NoCall == [api |-> "none", features_null |-> FALSE, features_length |-> 0,
           out_null |-> FALSE, out_length |-> 0, root |-> 0]

\* the empty ensemble
NoModel == Trees(<<>>, <<>>, 0, <<>>, 0, 0, 0)

\* no call in progress
Idle ==
    /\ forest = NoModel
    /\ features = <<>>
    /\ call = NoCall
    /\ pc = "idle"
    /\ out = <<>>
    /\ i = 0
    /\ node_idx = 0
    /\ visited = 0
    /\ traversed = <<>>
    /\ leaf_number = 0
    /\ sum = F(0)
    /\ ret = "none"
    /\ writes = {}
    /\ data_read = FALSE

\* ---------------------------------------------- eml_trees_predict_tree
\* line 85: the child taken at a node
TreeChild_le(node, value) == IF value <= node.value THEN node.left ELSE node.right
TreeChild(node, value) == IF value < node.value THEN node.left ELSE node.right

\* lines 92-96: relative jump, or the leaf sentinel itself
NextNodeIdx(idx, child) == IF child >= 0 THEN idx + child ELSE child

\* line 82: features[feature]; through a null pointer the read is undefined
\* and yields an arbitrary value (or the process dies, see NullDeref)
FeatureRead(feature) == IF call.features_null THEN FeatVals ELSE {features[feature]}

\* a direct call of the static traversal routine
CallPredictTree(m, root, f) ==
    /\ pc = "idle"
    /\ forest' = m
    /\ features' = f
    /\ call' = [NoCall EXCEPT !.api = "predict_tree",
                              !.features_length = m.n_features, !.root = root]
    /\ node_idx' = root
    /\ visited' = 0
    /\ pc' = "tree"
    /\ UNCHANGED <<out, i, traversed, leaf_number, sum, ret, writes, data_read>>

\* one iteration of the while loop, lines 80-97
TreeIter ==
    /\ pc = "tree"
    /\ node_idx >= 0
    /\ LET node == forest.nodes[node_idx]
       IN  \E value \in FeatureRead(node.feature) :
               node_idx' = NextNodeIdx(node_idx, TreeChild(node, value))
    /\ visited' = Min(visited + 1, MaxSteps)
    /\ data_read' = TRUE
    /\ UNCHANGED <<forest, features, call, pc, out, i, traversed, leaf_number,
                   sum, ret, writes>>

\* loop exit, lines 99-106
TreeReturn ==
    /\ pc = "tree"
    /\ node_idx < 0
    /\ leaf_number' = ToInt16(-node_idx - 1)
    /\ IF call.api = "predict_tree"
       THEN pc' = "done" /\ ret' = ToInt16(-node_idx - 1)
       ELSE pc' = "leaf" /\ ret' = ret
    /\ UNCHANGED <<forest, features, call, out, i, node_idx, visited, traversed,
                   sum, writes, data_read>>

\* the caller takes the result; the engine keeps nothing between calls
Return ==
    /\ pc = "done"
    /\ forest' = NoModel
    /\ features' = <<>>
    /\ call' = NoCall
    /\ pc' = "idle"
    /\ out' = <<>>
    /\ i' = 0
    /\ node_idx' = 0
    /\ visited' = 0
    /\ traversed' = <<>>
    /\ leaf_number' = 0
    /\ sum' = F(0)
    /\ ret' = "none"
    /\ writes' = {}
    /\ data_read' = FALSE

\* line 82 through a null features pointer: the process may die instead
NullDeref ==
    /\ pc = "tree"
    /\ node_idx >= 0
    /\ call.features_null
    /\ pc' = "crashed"
    /\ UNCHANGED <<forest, features, call, out, i, node_idx, visited, traversed,
                   leaf_number, sum, ret, writes, data_read>>

\* ------------------------------------------------ the callers' buffers
\* a caller-owned float buffer of n elements holding the caller's old values
CallerBuffer(n) == [k \in 0 .. n - 1 |-> F(7)]

\* ---------------------------------------------- eml_trees_predict_proba
\* EML_PRECONDITION of eml_common.h: return errorcode unless expr holds
EML_PRECONDITION(expr, errorcode, otherwise) == IF expr THEN otherwise ELSE errorcode

\* lines 122-125
ProbaPrecondition(fnull, onull, olen, n_outputs) ==
    EML_PRECONDITION(~fnull, EmlUninitialized,
    EML_PRECONDITION(~onull, EmlUninitialized,
    EML_PRECONDITION(olen = n_outputs, EmlSizeMismatch, EmlOk)))

\* lines 127-129
ZeroFill_short(buf, n) == [k \in DOMAIN buf |-> IF k < n - 1 THEN F(0) ELSE buf[k]]
ZeroFill(buf, n) == [k \in DOMAIN buf |-> IF k < n THEN F(0) ELSE buf[k]]

\* lines 131-172: the branch on leaf_bits
ProbaMode(leaf_bits) ==
    IF leaf_bits = 0 THEN "majority" ELSE IF leaf_bits = 8 THEN "soft" ELSE "unsupported"

\* status of eml_trees_predict_proba before the first tree (EmlOk: go on)
ProbaStatus(m, fnull, onull, olen) ==
    LET e == ProbaPrecondition(fnull, onull, olen, m.n_classes)
    IN  IF e # EmlOk THEN e
        ELSE IF ProbaMode(m.leaf_bits) = "unsupported" THEN EmlUnsupported
        ELSE EmlOk

\* the out buffer before the first tree
ProbaBuffer(m, buf, fnull, onull, olen) ==
    IF ProbaPrecondition(fnull, onull, olen, m.n_classes) = EmlOk
    THEN ZeroFill(buf, olen) ELSE buf

\* line 157: leaf_data[class_no] / 255, an int division, converted to float
SoftProportion(byte) == F(byte \div 255)

\* lines 117-131
CallPredictProba(m, f, fnull, onull, olen) ==
    /\ pc = "idle"
    /\ forest' = m
    /\ features' = f
    /\ call' = [NoCall EXCEPT !.api = "predict_proba", !.features_null = fnull,
                              !.features_length = m.n_features,
                              !.out_null = onull, !.out_length = olen]
    /\ out' = ProbaBuffer(m, CallerBuffer(Max(olen, 1)), fnull, onull, olen)
    /\ i' = 0
    /\ LET status == ProbaStatus(m, fnull, onull, olen)
       IN  IF status = EmlOk
           THEN pc' = "loop" /\ ret' = ret
           ELSE pc' = "done" /\ ret' = status
    /\ UNCHANGED <<node_idx, visited, traversed, leaf_number, sum, writes, data_read>>

\* lines 135/150/274: the next tree's traversal starts at its root
TreeStart ==
    /\ pc = "loop"
    /\ i < forest.n_trees
    /\ node_idx' = forest.tree_roots[i]
    /\ visited' = 0
    /\ traversed' = Append(traversed, i)
    /\ pc' = "tree"
    /\ UNCHANGED <<forest, features, call, out, i, leaf_number, sum, ret, writes,
                   data_read>>

IsProba == call.api \in {"predict_proba", "predict"}
IsRegress == call.api \in {"regress", "regress1"}

\* lines 139-141: one vote. A class number outside the buffer is a write out
\* of bounds: the process dies, or the write lands in other memory.
ProbaVoteMajority ==
    /\ pc = "leaf"
    /\ IsProba
    /\ ProbaMode(forest.leaf_bits) = "majority"
    /\ LET class_no == forest.leaves[leaf_number]
       IN  /\ writes' = writes \cup {class_no}
           /\ IF class_no \in DOMAIN out
              THEN /\ out' = [out EXCEPT ![class_no] = FAdd(@, F(1))]
                   /\ pc' = "loop"
                   /\ i' = i + 1
              ELSE /\ out' = out
                   /\ \/ pc' = "crashed" /\ i' = i
                      \/ pc' = "loop" /\ i' = i + 1
    /\ data_read' = TRUE
    /\ UNCHANGED <<forest, features, call, node_idx, visited, traversed, leaf_number,
                   sum, ret>>

\* lines 153-159: the class proportions of one leaf
ProbaVoteSoft ==
    /\ pc = "leaf"
    /\ IsProba
    /\ ProbaMode(forest.leaf_bits) = "soft"
    /\ LET leaf_size == forest.n_classes
           leaf_offset == leaf_number * leaf_size
       IN  out' = [c \in DOMAIN out |->
                     IF c < forest.n_classes
                     THEN FAdd(out[c], SoftProportion(forest.leaves[leaf_offset + c]))
                     ELSE out[c]]
    /\ pc' = "loop"
    /\ i' = i + 1
    /\ data_read' = TRUE
    /\ UNCHANGED <<forest, features, call, node_idx, visited, traversed, leaf_number,
                   sum, ret, writes>>

\* lines 174-179
ProbaMean ==
    /\ pc = "loop"
    /\ IsProba
    /\ i >= forest.n_trees
    /\ out' = [k \in DOMAIN out |->
                 IF k < call.out_length THEN FDivInt(out[k], forest.n_trees) ELSE out[k]]
    /\ IF call.api = "predict_proba"
       THEN pc' = "done" /\ ret' = EmlOk
       ELSE pc' = "argmax" /\ ret' = ret
    /\ UNCHANGED <<forest, features, call, i, node_idx, visited, traversed, leaf_number,
                   sum, writes, data_read>>

\* --------------------------------------------------- eml_trees_predict
\* lines 201-207
PredictLengthError_gt(m, flen) ==
    flen > m.n_features \/ m.n_classes > EMTREES_MAX_CLASSES
PredictLengthError(m, flen) ==
    flen # m.n_features \/ m.n_classes > EMTREES_MAX_CLASSES

\* line 222
VoteBeats_ge(v, best) == ~IsNaN(v) /\ ~FGt(best, v)
VoteBeats(v, best) == FGt(v, best)

\* lines 218-226: the scan from class k on
RECURSIVE ArgmaxScan(_, _, _, _, _)
ArgmaxScan(votes, n, k, most_voted_class, most_voted_value) ==
    IF k >= n THEN most_voted_class
    ELSE IF VoteBeats(votes[k], most_voted_value)
         THEN ArgmaxScan(votes, n, k + 1, k, votes[k])
         ELSE ArgmaxScan(votes, n, k + 1, most_voted_class, most_voted_value)

\* lines 192-216: the checks, votes[30] = {0}, and the entry of predict_proba
CallPredict(m, f, flen) ==
    /\ pc = "idle"
    /\ forest' = m
    /\ features' = f
    /\ i' = 0
    /\ IF PredictLengthError(m, flen)
       THEN /\ call' = [NoCall EXCEPT !.api = "predict", !.features_length = flen]
            /\ out' = out
            /\ pc' = "done"
            /\ ret' = -EmlTreesErrorLength
       ELSE LET votes == [k \in 0 .. EMTREES_MAX_CLASSES - 1 |-> F(0)]
                status == ProbaStatus(m, FALSE, FALSE, m.n_classes)
            IN  /\ call' = [NoCall EXCEPT !.api = "predict", !.features_length = flen,
                                          !.out_length = m.n_classes]
                /\ out' = ProbaBuffer(m, votes, FALSE, FALSE, m.n_classes)
                /\ IF status = EmlOk
                   THEN pc' = "loop" /\ ret' = ret
                   ELSE pc' = "done" /\ ret' = -EmlTreesUnknownError
    /\ UNCHANGED <<node_idx, visited, traversed, leaf_number, sum, writes, data_read>>

\* lines 218-235
PredictArgmax ==
    /\ pc = "argmax"
    /\ ret' = ArgmaxScan(out, forest.n_classes, 0, -1, F(0))
    /\ pc' = "done"
    /\ UNCHANGED <<forest, features, call, out, i, node_idx, visited, traversed,
                   leaf_number, sum, writes, data_read>>

\* --------------------------------------------------- eml_trees_regress
\* lines 262-269
RegressPrecheck_swapped(m, olen) ==
    IF m.leaf_bits # 32 THEN EmlUnsupported
    ELSE IF olen < 1 THEN EmlSizeMismatch
    ELSE EmlOk
RegressPrecheck(m, olen) ==
    IF olen < 1 THEN EmlSizeMismatch
    ELSE IF m.leaf_bits # 32 THEN EmlUnsupported
    ELSE EmlOk

\* lines 250-273
CallRegress(m, f, fnull, onull, olen) ==
    /\ pc = "idle"
    /\ forest' = m
    /\ features' = f
    /\ call' = [NoCall EXCEPT !.api = "regress", !.features_null = fnull,
                              !.features_length = m.n_features,
                              !.out_null = onull, !.out_length = olen]
    /\ out' = CallerBuffer(Max(olen, 1))
    /\ i' = 0
    /\ sum' = F(0)
    /\ LET status == RegressPrecheck(m, olen)
       IN  IF status = EmlOk
           THEN pc' = "loop" /\ ret' = ret
           ELSE pc' = "done" /\ ret' = status
    /\ UNCHANGED <<node_idx, visited, traversed, leaf_number, writes, data_read>>

\* lines 300-310: float out[1], and the entry of eml_trees_regress(.., out, 1)
CallRegress1(m, f, fnull) ==
    /\ pc = "idle"
    /\ forest' = m
    /\ features' = f
    /\ call' = [NoCall EXCEPT !.api = "regress1", !.features_null = fnull,
                              !.features_length = m.n_features, !.out_length = 1]
    /\ out' = CallerBuffer(1)
    /\ i' = 0
    /\ sum' = F(0)
    /\ IF RegressPrecheck(m, 1) = EmlOk
       THEN pc' = "loop" /\ ret' = ret
       ELSE pc' = "done" /\ ret' = NaN
    /\ UNCHANGED <<node_idx, visited, traversed, leaf_number, writes, data_read>>

\* lines 276-279: the float at leaves + leaf_number * 4
RegressAccumulate ==
    /\ pc = "leaf"
    /\ IsRegress
    /\ LET leaf_size == 4
           leaf_offset == leaf_number * leaf_size
           val == DecodeFloat(forest.leaves[leaf_offset], forest.leaves[leaf_offset + 1],
                              forest.leaves[leaf_offset + 2], forest.leaves[leaf_offset + 3])
       IN  sum' = FAdd(sum, val)
    /\ pc' = "loop"
    /\ i' = i + 1
    /\ data_read' = TRUE
    /\ UNCHANGED <<forest, features, call, out, node_idx, visited, traversed,
                   leaf_number, ret, writes>>

\* lines 282-288, and 311 for regress1. Through a null out pointer the write
\* of out[0] is undefined: the process dies, or the write is lost.
RegressMean ==
    /\ pc = "loop"
    /\ IsRegress
    /\ i >= forest.n_trees
    /\ IF call.out_null
       THEN /\ out' = out
            /\ \/ pc' = "crashed" /\ ret' = ret
               \/ pc' = "done" /\ ret' = EmlOk
       ELSE /\ out' = [out EXCEPT ![0] = FDivInt(sum, forest.n_trees)]
            /\ pc' = "done"
            /\ ret' = IF call.api = "regress1" THEN FDivInt(sum, forest.n_trees) ELSE EmlOk
    /\ UNCHANGED <<forest, features, call, i, node_idx, visited, traversed,
                   leaf_number, sum, writes, data_read>>

\* ------------------------------------------------ ensembles (bounded)
\* two stumps; a chain of two nodes; a node whose left child is itself
EnsembleNodeArrays ==
    {<<Node(0, 10, -1, -2), Node(0, 10, -2, -1)>>,
     <<Node(0, 15, 1, -1), Node(0, 10, -2, -1)>>,
     <<Node(0, 10, 0, -1), Node(0, 10, -2, -1)>>}

ClassCounts == {2, 3, 31}
ClassBytes == {0, 1, 2}
SoftRows == {<<200, 55>>, <<255, 0>>, <<0, 255>>}
\* 1.0f, 3.0f, -2.0f
FloatRows == {<<0, 0, 128, 63>>, <<0, 0, 64, 64>>, <<0, 0, 0, 192>>}

LeafConfig(bits, nc, leaves) == [leaf_bits |-> bits, n_classes |-> nc, leaves |-> leaves]

\* two leaves under each encoding, and one encoding the engine does not know
LeafConfigs ==
    {LeafConfig(0, nc, <<a, b>>) : nc \in ClassCounts, a \in ClassBytes, b \in ClassBytes}
    \cup {LeafConfig(8, 2, r1 \o r2) : r1 \in SoftRows, r2 \in SoftRows}
    \cup {LeafConfig(32, 2, r1 \o r2) : r1 \in FloatRows, r2 \in FloatRows}
    \cup {LeafConfig(16, 2, <<0, 1, 0, 1>>)}

RootSeqs == SeqsUpTo({0, 1}, MaxTrees)

EnsembleModel(ns, roots, lc) == Trees(ns, roots, 2, lc.leaves, lc.leaf_bits, 1, lc.n_classes)

\* ------------------------------------------------ specification: the API
Init == Idle

Next ==
    \/ /\ pc = "idle"
       /\ \E ns \in EnsembleNodeArrays, roots \in RootSeqs, lc \in LeafConfigs :
            \E fnull \in BOOLEAN, onull \in BOOLEAN,
               olen \in {lc.n_classes, lc.n_classes + 1} :
             \E f \in PassedFeatures(1, fnull) :
              CallPredictProba(EnsembleModel(ns, roots, lc), f, fnull, onull, olen)
    \/ /\ pc = "idle"
       /\ \E ns \in EnsembleNodeArrays, roots \in RootSeqs, lc \in LeafConfigs :
            \E f \in FeatureVectors(1), flen \in 0 .. 2 :
              CallPredict(EnsembleModel(ns, roots, lc), f, flen)
    \/ /\ pc = "idle"
       /\ \E ns \in EnsembleNodeArrays, roots \in RootSeqs, lc \in LeafConfigs :
            \E fnull \in BOOLEAN, onull \in BOOLEAN, olen \in 0 .. 2 :
             \E f \in PassedFeatures(1, fnull) :
              CallRegress(EnsembleModel(ns, roots, lc), f, fnull, onull, olen)
    \/ /\ pc = "idle"
       /\ \E ns \in EnsembleNodeArrays, roots \in RootSeqs, lc \in LeafConfigs :
            \E fnull \in BOOLEAN :
             \E f \in PassedFeatures(1, fnull) :
              CallRegress1(EnsembleModel(ns, roots, lc), f, fnull)
    \/ TreeStart
    \/ TreeIter
    \/ NullDeref
    \/ TreeReturn
    \/ ProbaVoteMajority
    \/ ProbaVoteSoft
    \/ ProbaMean
    \/ PredictArgmax
    \/ RegressAccumulate
    \/ RegressMean
    \/ Return

Spec == Init /\ [][Next]_vars

\* ------------------------------------------- specification: one traversal

InitTree == Idle

NextTree ==
    \/ /\ pc = "idle"
       /\ \E nf \in FeatureCounts, n \in 1 .. MaxNodes :
            \E ns \in [1 .. n -> AnyNode(n, nf)] :
              /\ IsNodeArray(ns, n, nf)
              /\ \E root \in 0 .. n - 1, f \in FeatureVectors(nf) :
                    CallPredictTree(TreeModel(ns, nf), root, f)
    \/ TreeIter
    \/ TreeReturn
    \/ Return

SpecTree == InitTree /\ [][NextTree]_vars


\* ------------------------------------------------ reference definitions
\* the leaf the documented descent reaches from node idx: left when
\* features[feature] < threshold, right otherwise; a non-negative child is
\* added to the index, a negative child v ends at leaf -v-1
RECURSIVE DescentLeaf(_, _, _, _)
DescentLeaf(nodes, idx, f, fuel) ==
    LET nd == nodes[idx]
        c  == IF f[nd.feature] < nd.value THEN nd.left ELSE nd.right
    IN  IF c < 0 THEN -c - 1
        ELSE IF fuel = 0 THEN -1
        ELSE DescentLeaf(nodes, idx + c, f, fuel - 1)

\* the leaf tree t of model m reaches
LeafOfTree(m, t, f) == DescentLeaf(m.nodes, m.tree_roots[t], f, m.n_nodes)

TreeIndices(m) == 0 .. m.n_trees - 1
ClassIndices(m) == 0 .. m.n_classes - 1

\* no node reaches itself: jumps are non-negative, so a cycle is a jump of 0
Acyclic(m) == \A k \in DOMAIN m.nodes : m.nodes[k].left # 0 /\ m.nodes[k].right # 0
JumpsInside(m) ==
    \A k \in DOMAIN m.nodes :
        /\ m.nodes[k].left >= 0 => k + m.nodes[k].left \in DOMAIN m.nodes
        /\ m.nodes[k].right >= 0 => k + m.nodes[k].right \in DOMAIN m.nodes

RECURSIVE SumOver(_, _)
SumOver(g, S) ==
    IF S = {} THEN 0
    ELSE LET x == CHOOSE y \in S : TRUE IN g[x] + SumOver(g, S \ {x})

RECURSIVE FSumOver(_, _)
FSumOver(g, S) ==
    IF S = {} THEN F(0)
    ELSE LET x == CHOOSE y \in S : TRUE IN FAdd(g[x], FSumOver(g, S \ {x}))

\* the call in progress passed the checks at its entry and goes through the trees
Accepted ==
    \/ /\ call.api = "predict_proba"
       /\ ~call.features_null /\ ~call.out_null /\ call.out_length = forest.n_classes
       /\ forest.leaf_bits \in {0, 8}
    \/ /\ call.api = "predict"
       /\ call.features_length = forest.n_features /\ forest.n_classes <= 30
       /\ forest.leaf_bits \in {0, 8}
    \/ /\ call.api \in {"regress", "regress1"}
       /\ call.out_length >= 1
       /\ forest.leaf_bits = 32

\* ------------------------------------------------------------ properties

\* C1: started at tree_root, eml_trees_predict_tree follows at each node the
\* left child when features[node.feature] < node.value and the right child
\* otherwise, adds a non-negative child to the node index, stops at the first
\* negative child v and returns leaf -v-1; the single node
\* {feature 0, threshold 10, left -1, right -2} gives leaf 0 for [5] and
\* leaf 1 for [15] and for [10].
C1_TraversalReachesDocumentedLeaf ==
    (call.api = "predict_tree" /\ pc = "done") =>
        /\ ret = DescentLeaf(forest.nodes, call.root, features, forest.n_nodes)
        /\ (forest.n_nodes = 1 /\ forest.nodes[0] = Node(0, 10, -1, -2)) =>
               /\ features[0] = 5 => ret = 0
               /\ features[0] = 15 => ret = 1
               /\ features[0] = 10 => ret = 1

\* a traversal that took a jump and then went right on a feature equal to
\* the threshold
C1_Witness ==
    /\ call.api = "predict_tree"
    /\ pc = "done"
    /\ visited = 2
    /\ forest.nodes[1].right = -2
    /\ features[forest.nodes[1].feature] = 10
    /\ ret = 1

\* C2: with leaf_bits = 0 every tree adds one unit vote to the class stored
\* in the leaf it reaches: before the mean the scores out[0..n_classes) sum
\* to n_trees, and after it out[c] = (trees voting c) / n_trees.
C2_UnitVotes ==
    (IsProba /\ forest.leaf_bits = 0) =>
        /\ (pc = "loop" /\ i >= forest.n_trees) =>
               FSumOver(out, ClassIndices(forest)) = F(forest.n_trees)
        /\ (pc \in {"argmax", "done"} /\ Accepted) =>
               \A c \in ClassIndices(forest) :
                   out[c] = FDivInt(F(Cardinality({t \in TreeIndices(forest) :
                                forest.leaves[LeafOfTree(forest, t, features)] = c})),
                                    forest.n_trees)

\* C3: with leaf_bits = 8 every tree adds byte/255, a fraction, for each class,
\* and the result is the mean: out[c] = (sum of the bytes) / (255 * n_trees);
\* one tree with leaf bytes {200, 55} gives {200/255, 55/255}.
C3_SoftProportions ==
    (call.api = "predict_proba" /\ pc = "done" /\ forest.leaf_bits = 8 /\ Accepted) =>
        \A c \in ClassIndices(forest) :
            out[c] = FDivInt(F(SumOver([t \in TreeIndices(forest) |->
                            forest.leaves[LeafOfTree(forest, t, features)
                                          * forest.n_classes + c]],
                                  TreeIndices(forest))),
                             255 * forest.n_trees)

\* among the scores eml_trees_predict scans: the classes above zero, and
\* those of them that no class beats
Selectable == {c \in ClassIndices(forest) : FGt(out[c], F(0))}
Maximal == {c \in Selectable : \A d \in ClassIndices(forest) : ~FGt(out[d], out[c])}

\* C4: when the checks pass and predict_proba succeeds, eml_trees_predict
\* returns the lowest class whose score is the maximum and greater than zero,
\* and -1 when every score is zero, also when n_trees = 0.
C4_PredictArgmax ==
    (call.api = "predict" /\ pc = "done"
        /\ ~(call.features_length # forest.n_features \/ forest.n_classes > 30)
        /\ forest.leaf_bits \in {0, 8}) =>
        /\ Selectable # {} =>
               /\ ret \in Maximal
               /\ \A c \in Maximal : ret <= c
        /\ Selectable = {} => ret = -1
        /\ ((\A c \in ClassIndices(forest) : out[c] = F(0)) \/ forest.n_trees = 0) =>
               ret = -1

\* two classes tied at the greatest score: the lower one is returned
C4_Witness ==
    /\ call.api = "predict"
    /\ pc = "done"
    /\ Accepted
    /\ out[0] = out[1]
    /\ FGt(out[0], F(0))
    /\ \A c \in ClassIndices(forest) : ~FGt(out[c], out[0])
    /\ ret = 0

\* C5: eml_trees_predict returns -EmlTreesErrorLength whenever
\* features_length != n_features or n_classes > 30, before any tree is
\* traversed and before any feature or leaf is read.
C5_LengthErrorFirst ==
    (call.api = "predict"
        /\ (call.features_length # forest.n_features \/ forest.n_classes > 30)) =>
        /\ pc = "done"
        /\ ret = -EmlTreesErrorLength
        /\ traversed = <<>>
        /\ ~data_read

\* the class-count path: the length matches and n_classes = 31
C5_Witness ==
    /\ call.api = "predict"
    /\ pc = "done"
    /\ call.features_length = forest.n_features
    /\ forest.n_classes = 31
    /\ forest.n_trees > 0
    /\ ret = -EmlTreesErrorLength

\* C6 as stated: eml_trees_regress returns unsupported-encoding whenever
\* leaf_bits != 32, and eml_trees_regress1 returns NaN if and only if
\* leaf_bits != 32 and otherwise the value regress wrote to out[0].
C6_UnsupportedExactly ==
    /\ (call.api = "regress" /\ pc = "done" /\ forest.leaf_bits # 32) =>
           ret = EmlUnsupported
    /\ (call.api = "regress1" /\ pc = "done") =>
           /\ IsNaN(ret) <=> forest.leaf_bits # 32
           /\ forest.leaf_bits = 32 => ret = out[0]

\* C6 as amended: eml_trees_regress returns size-mismatch when out_length < 1,
\* else unsupported-encoding when leaf_bits != 32; eml_trees_regress1 returns
\* NaN whenever leaf_bits != 32, and with leaf_bits = 32 the value regress
\* wrote to out[0], the mean of the leaves reached, which is NaN too when
\* n_trees = 0.
C6_UnsupportedOrMean ==
    /\ (call.api = "regress" /\ pc = "done") =>
           ret = IF call.out_length < 1 THEN EmlSizeMismatch
                 ELSE IF forest.leaf_bits # 32 THEN EmlUnsupported
                 ELSE EmlOk
    /\ (call.api = "regress" /\ call.out_length >= 1 /\ forest.leaf_bits # 32) =>
           pc = "done"
    /\ (call.api = "regress1" /\ forest.leaf_bits # 32) =>
           (pc = "done" /\ IsNaN(ret))
    /\ (call.api = "regress1" /\ pc = "done" /\ forest.leaf_bits = 32) =>
           /\ ret = out[0]
           /\ forest.n_trees = 0 => IsNaN(ret)
           /\ (forest.n_trees > 0 /\ ~call.features_null) =>
                  ret = FDivInt(
                          FSumOver([t \in TreeIndices(forest) |->
                                      LET o == 4 * LeafOfTree(forest, t, features)
                                      IN  DecodeFloat(forest.leaves[o], forest.leaves[o + 1],
                                                      forest.leaves[o + 2], forest.leaves[o + 3])],
                                   TreeIndices(forest)),
                          forest.n_trees)

\* regress1 on a regression model without trees returns NaN
C6_Witness ==
    /\ call.api = "regress1"
    /\ pc = "done"
    /\ forest.leaf_bits = 32
    /\ forest.n_trees = 0
    /\ IsNaN(ret)

\* C7: a call of eml_trees_predict_proba or eml_trees_regress with a null
\* features pointer, a null out pointer or an out_length that does not fit is
\* rejected at once with the error kind of that precondition, no tree is
\* traversed and the caller's out buffer is left as it was.
C7_BoundaryRejects ==
    LET badlen == IF call.api = "regress" THEN call.out_length < 1
                  ELSE call.out_length # forest.n_classes
        null   == call.features_null \/ call.out_null
    IN  (call.api \in {"predict_proba", "regress"} /\ (null \/ badlen)) =>
            /\ pc = "done"
            /\ ret \in ((IF null THEN {EmlUninitialized} ELSE {})
                        \cup (IF badlen THEN {EmlSizeMismatch} ELSE {}))
            /\ traversed = <<>>
            /\ out = CallerBuffer(Max(call.out_length, 1))

\* C8: on a model whose leaf_bits is neither 0 nor 8, eml_trees_predict_proba
\* (valid pointers, out_length = n_classes) zero-fills out and returns
\* unsupported-encoding without traversing a tree, and eml_trees_predict
\* returns -EmlTreesUnknownError.
C8_UnsupportedEncoding ==
    /\ (call.api = "predict_proba" /\ ~call.features_null /\ ~call.out_null
           /\ call.out_length = forest.n_classes /\ forest.leaf_bits \notin {0, 8}) =>
           /\ pc = "done"
           /\ ret = EmlUnsupported
           /\ traversed = <<>>
           /\ \A k \in ClassIndices(forest) : out[k] = F(0)
    /\ (call.api = "predict" /\ call.features_length = forest.n_features
           /\ forest.n_classes <= 30 /\ forest.leaf_bits \notin {0, 8}) =>
           /\ pc = "done"
           /\ ret = -EmlTreesUnknownError
           /\ traversed = <<>>

\* predict_proba on a regression model with trees
C8_Witness ==
    /\ call.api = "predict_proba"
    /\ pc = "done"
    /\ forest.leaf_bits = 32
    /\ forest.n_trees > 0
    /\ ret = EmlUnsupported
    /\ out = [k \in 0 .. 1 |-> F(0)]

C10_VotesInRange ==
    IsProba => writes \subseteq ClassIndices(forest)

====
